---- MODULE Spec2Model ----
(***************************************************************************)
(* A model of the Geohash class of geohash.py: angle normalization, the    *)
(* interval bisector (_encode, decode_to_interval, decode), the base-32    *)
(* tables and the neighbour generator, with the object that stores one     *)
(* geohash string.                                                         *)
(*                                                                         *)
(* Angles are binary floating-point numbers.  An angle is held as an       *)
(* integer number of units, one unit being 1/Scale of a degree, Scale a    *)
(* power of two.  A float is a number whose significand has MantissaBits   *)
(* bits, and every sum, difference and product is rounded to the nearest   *)
(* float, ties to even (Fl).  MantissaBits is fewer than the 53 of a       *)
(* Python float, so that the values fit the integers of the model checker. *)
(* As in the source, the bounds and midpoints of the cells of a geohash of *)
(* at most ExactLen characters are floats, so their bisection is exact (in *)
(* the source: up to 18 characters); an arbitrary coordinate carries bits  *)
(* that a shift by 360 rounds away; and at LongLen characters the cells    *)
(* next to +-180 and +-90 are narrower than the spacing of the floats      *)
(* there (in the source: at 22 characters).                                *)
(* Halving a float is exact in the source; the unit is small enough that   *)
(* it is exact here for strings of at most LongLen + 1 characters.         *)
(*                                                                         *)
(* A string is a sequence of one-character strings; Python's 0-based       *)
(* indices become 1-based.                                                 *)
(***************************************************************************)
EXTENDS Integers, Naturals, Sequences, FiniteSets, TLC

VARIABLES
    geohash,    \* self._geohash, a str; NoObject when the constructor raised
    lat_lng,    \* the list passed to the last call, as the call left it
    op,         \* the name of the last call
    args,       \* the arguments of the last call, as they were passed
    ret,        \* what the last call returned
    err         \* the exception the last call raised, or "None"

vars == <<geohash, lat_lng, op, args, ret, err>>

----------------------------------------------------------------------------
(* Bounds of the model. *)

MaxLen == 2          \* longest geohash that is encoded or decoded
MaxTurns == 1        \* raw angles reach MaxTurns whole turns past +-180
MaxOrder == 2        \* largest neighbour order that is called

(* Bits of the significand of a float (53 in the source). *)
MantissaBits == 11

(* The longest geohash whose bisection is exact (19 characters in the      *)
(* source): the bounds of the cells of an L-character geohash are whole    *)
(* multiples of 45/2^(ceil(5*L/2)-3) degrees up to 180 degrees, which      *)
(* floats of ceil(5*L/2) + 5 bits hold, with the sums of the bounds that   *)
(* the bisection adds up on the way.                                       *)
ExactLen == (2 * (MantissaBits - 5)) \div 5

(* The longest geohash whose cells have a float for their midpoint (18     *)
(* characters in the source): the sum of the two bounds of a cell takes    *)
(* one bit more than the bounds.                                           *)
MidExactLen == (2 * (MantissaBits - 6)) \div 5

(* The shortest geohash whose cells next to +-180 degrees are narrower     *)
(* than the spacing of the floats there: bit MantissaBits + 2 of the       *)
(* longitude falls in its last character.                                  *)
LongLen == (2 * MantissaBits + 2) \div 5 + 1

(* Units per degree: the bounds and the midpoints of the cells of a        *)
(* geohash of LongLen + 1 characters are whole numbers of units.           *)
ScaleBits == (5 * (LongLen + 1)) \div 2
Scale == 2 ^ ScaleBits

Deg(d) == d * Scale

Abs(x) == IF x < 0 THEN -x ELSE x

(* The spacing of the floats around a number of magnitude a, at least one  *)
(* unit.                                                                   *)
RECURSIVE UlpOf(_, _)
UlpOf(a, u) == IF a < (2 ^ MantissaBits) * u THEN u ELSE UlpOf(a, 2 * u)

(* The float nearest to the exact result v, ties to the even significand. *)
Fl(v) ==
    LET u == UlpOf(Abs(v), 1)
        q == v \div u
        rem == v - q * u
    IN  IF rem = 0 THEN v
        ELSE IF 2 * rem < u THEN q * u
        ELSE IF 2 * rem > u THEN (q + 1) * u
        ELSE IF q % 2 = 0 THEN q * u
        ELSE (q + 1) * u

(* Python's x % 360 on floats: the exact fmod, to which 360 is added, with *)
(* rounding, when it is negative.                                          *)
PyMod360(x) == Fl(x % Deg(360))

None == "None"

----------------------------------------------------------------------------
(* Python values that cross the API.  A number that is used as an angle    *)
(* carries units when it is a float and whole degrees when it is an int;   *)
(* a str carries its characters.                                           *)

PyNone == [type |-> "NoneType"]
PyInt(n) == [type |-> "int", val |-> n]
PyFloat(x) == [type |-> "float", val |-> x]
PyStr(s) == [type |-> "str", val |-> s]
PyList(items) == [type |-> "list", val |-> items]

NoObject == PyNone

(* The angle, in units, that a float or int item stands for. *)
Units(item) == IF item.type = "int" THEN Deg(item.val) ELSE item.val

(* The number an arithmetic result on item yields: int stays int. *)
NumLike(item, units) ==
    IF item.type = "int" THEN PyInt(units \div Scale) ELSE PyFloat(units)

----------------------------------------------------------------------------
(* The base-32 tables. *)

_BASE_32 ==
    << "0", "1", "2", "3", "4", "5", "6", "7", "8", "9", "b", "c", "d", "e",
       "f", "g", "h", "j", "k", "m", "n", "p", "q", "r", "s", "t", "u", "v",
       "w", "x", "y", "z" >>

(* _BASE_32_RESULT with the digits of base-32 hex, 0-9 then a-v. *)
_BASE_32_RESULT_hex ==
    << "0", "1", "2", "3", "4", "5", "6", "7", "8", "9", "a", "b", "c", "d",
       "e", "f", "g", "h", "i", "j", "k", "l", "m", "n", "o", "p", "q", "r",
       "s", "t", "u", "v" >>

_BASE_32_RESULT == _BASE_32

Alphabet == { _BASE_32[k] : k \in 1..Len(_BASE_32) }

(* _BASE_32_TABLE that numbers the characters from the end of _BASE_32. *)
_BASE_32_TABLE_reversed ==
    [ c \in Alphabet |->
        Len(_BASE_32) - (CHOOSE k \in 1..Len(_BASE_32) : _BASE_32[k] = c) ]

_BASE_32_TABLE ==
    [ c \in Alphabet |-> (CHOOSE k \in 1..Len(_BASE_32) : _BASE_32[k] = c) - 1 ]

_int_to_base_32(v) == _BASE_32_RESULT[v + 1]

_base_32_to_int(c) == _BASE_32_TABLE[c]

----------------------------------------------------------------------------
(* Angle normalization. *)

(* _normalize_angle_180 with ">=" for ">": +180 wraps to -180. *)
_normalize_angle_180_ge(lng) ==
    LET lng_is_negative == lng < 0
        r == PyMod360(lng)
    IN  IF r >= Deg(180) THEN Fl(r - Deg(360))
        ELSE IF lng_is_negative THEN -r
        ELSE r

_normalize_angle_180(lng) ==
    LET lng_is_negative == lng < 0
        r == PyMod360(lng)
    IN  IF r > Deg(180) THEN Fl(r - Deg(360))
        ELSE IF lng_is_negative THEN -r
        ELSE r

(* _normalize_lat that clamps at the poles. *)
_normalize_lat_clamp(lat) ==
    LET r == _normalize_angle_180(lat)
    IN  IF r > Deg(90) THEN Deg(90)
        ELSE IF r < -Deg(90) THEN -Deg(90)
        ELSE r

_normalize_lat(lat) ==
    LET r == _normalize_angle_180(lat)
    IN  IF r > Deg(90) THEN Fl(Deg(180) - r)
        ELSE IF r < -Deg(90) THEN Fl(-Deg(180) - r)
        ELSE r

----------------------------------------------------------------------------
(* The interval bisector: _encode. *)

(* A Python int that is used as a string of bits (bit_code, bitstream) is  *)
(* held as the sequence of its bits, most significant first, as many as    *)
(* were shifted in: "x << 1" appends 0 and "(x << 1) | 1" appends 1.  Bit  *)
(* p of an n-bit int, counted from the least significant, is element       *)
(* n - p.                                                                  *)
Bits5(v) == [ k \in 1..5 |-> (v \div (2 ^ (5 - k))) % 2 ]

Group5(bits, i) ==
    LET n == Len(bits)
    IN  16 * bits[n - 5 * i - 4] + 8 * bits[n - 5 * i - 3]
            + 4 * bits[n - 5 * i - 2] + 2 * bits[n - 5 * i - 1]
            + bits[n - 5 * i]

EncodeStart ==
    [ lng_min |-> -Deg(180), lng_max |-> Deg(180),
      lat_min |-> -Deg(90),  lat_max |-> Deg(90),
      bit_code |-> << >>, is_lng |-> TRUE ]

(* EncodeStep with "<=" for "<": a coordinate equal to a midpoint goes to   *)
(* the lower half.                                                         *)
EncodeStep_le(s, lat, lng) ==
    IF s.is_lng
    THEN LET mid == Fl(s.lng_min + s.lng_max) \div 2
         IN  IF lng <= mid
             THEN [s EXCEPT !.bit_code = Append(@, 0), !.lng_max = mid,
                            !.is_lng = ~@]
             ELSE [s EXCEPT !.bit_code = Append(@, 1), !.lng_min = mid,
                            !.is_lng = ~@]
    ELSE LET mid == Fl(s.lat_min + s.lat_max) \div 2
         IN  IF lat <= mid
             THEN [s EXCEPT !.bit_code = Append(@, 0), !.lat_max = mid,
                            !.is_lng = ~@]
             ELSE [s EXCEPT !.bit_code = Append(@, 1), !.lat_min = mid,
                            !.is_lng = ~@]

(* EncodeStep whose latitude branch tests the longitude. *)
EncodeStep_dup(s, lat, lng) ==
    IF s.is_lng
    THEN LET mid == Fl(s.lng_min + s.lng_max) \div 2
         IN  IF lng < mid
             THEN [s EXCEPT !.bit_code = Append(@, 0), !.lng_max = mid,
                            !.is_lng = ~@]
             ELSE [s EXCEPT !.bit_code = Append(@, 1), !.lng_min = mid,
                            !.is_lng = ~@]
    ELSE LET mid == Fl(s.lat_min + s.lat_max) \div 2
         IN  IF lng < mid
             THEN [s EXCEPT !.bit_code = Append(@, 0), !.lat_max = mid,
                            !.is_lng = ~@]
             ELSE [s EXCEPT !.bit_code = Append(@, 1), !.lat_min = mid,
                            !.is_lng = ~@]

(* One iteration of the loop of _encode. *)
EncodeStep(s, lat, lng) ==
    IF s.is_lng
    THEN LET mid == Fl(s.lng_min + s.lng_max) \div 2
         IN  IF lng < mid
             THEN [s EXCEPT !.bit_code = Append(@, 0), !.lng_max = mid,
                            !.is_lng = ~@]
             ELSE [s EXCEPT !.bit_code = Append(@, 1), !.lng_min = mid,
                            !.is_lng = ~@]
    ELSE LET mid == Fl(s.lat_min + s.lat_max) \div 2
         IN  IF lat < mid
             THEN [s EXCEPT !.bit_code = Append(@, 0), !.lat_max = mid,
                            !.is_lng = ~@]
             ELSE [s EXCEPT !.bit_code = Append(@, 1), !.lat_min = mid,
                            !.is_lng = ~@]

RECURSIVE EncodeLoop(_, _, _, _)
EncodeLoop(n, s, lat, lng) ==
    IF n = 0 THEN s ELSE EncodeLoop(n - 1, EncodeStep(s, lat, lng), lat, lng)

(* _encode that emits the 5-bit groups least significant first. *)
_encode_forward(lat, lng, length) ==
    LET bit_code == EncodeLoop(length * 5, EncodeStart, lat, lng).bit_code
    IN  [ m \in 1..length |-> _int_to_base_32(Group5(bit_code, m - 1)) ]

(* "(bit_code >> (5 * i)) & 0b11111" for i = length - 1 down to 0. *)
_encode(lat, lng, length) ==
    LET bit_code == EncodeLoop(length * 5, EncodeStart, lat, lng).bit_code
    IN  [ m \in 1..length |-> _int_to_base_32(Group5(bit_code, length - m)) ]

----------------------------------------------------------------------------
(* The interval bisector: decode_to_interval and decode. *)

RECURSIVE _geohash_to_bits(_)
_geohash_to_bits(g) ==
    IF g = << >> THEN << >>
    ELSE _geohash_to_bits(SubSeq(g, 1, Len(g) - 1))
            \o Bits5(_base_32_to_int(g[Len(g)]))

(* The loop of decode_to_interval in which a set bit leaves the interval   *)
(* as it is.                                                               *)
RECURSIVE DecodeLoop_keep(_, _, _, _, _)
DecodeLoop_keep(bit_position, bitstream, lat_range, lng_range, is_even) ==
    IF bit_position < 0 THEN << lat_range, lng_range >>
    ELSE LET bit == bitstream[Len(bitstream) - bit_position]
             range_ref == IF is_even THEN lng_range ELSE lat_range
             mid == Fl(range_ref[1] + range_ref[2]) \div 2
             updated == IF bit = 1 THEN range_ref
                                   ELSE << range_ref[1], mid >>
         IN  DecodeLoop_keep(bit_position - 1, bitstream,
                             IF is_even THEN lat_range ELSE updated,
                             IF is_even THEN updated ELSE lng_range,
                             ~is_even)

(* The loop of decode_to_interval from bit_position down to 0. *)
RECURSIVE DecodeLoop(_, _, _, _, _)
DecodeLoop(bit_position, bitstream, lat_range, lng_range, is_even) ==
    IF bit_position < 0 THEN << lat_range, lng_range >>
    ELSE LET bit == bitstream[Len(bitstream) - bit_position]
             range_ref == IF is_even THEN lng_range ELSE lat_range
             mid == Fl(range_ref[1] + range_ref[2]) \div 2
             updated == IF bit = 1 THEN << mid, range_ref[2] >>
                                   ELSE << range_ref[1], mid >>
         IN  DecodeLoop(bit_position - 1, bitstream,
                        IF is_even THEN lat_range ELSE updated,
                        IF is_even THEN updated ELSE lng_range,
                        ~is_even)

(* decode_to_interval that gives the first bit to the latitude. *)
decode_to_interval_latfirst(g) ==
    DecodeLoop(Len(g) * 5 - 1, _geohash_to_bits(g),
               << -Deg(90), Deg(90) >>, << -Deg(180), Deg(180) >>, FALSE)

decode_to_interval(g) ==
    DecodeLoop(Len(g) * 5 - 1, _geohash_to_bits(g),
               << -Deg(90), Deg(90) >>, << -Deg(180), Deg(180) >>, TRUE)

decode(g) ==
    LET interval == decode_to_interval(g)
    IN  << Fl(interval[1][1] + interval[1][2]) \div 2,
           Fl(interval[2][1] + interval[2][2]) \div 2 >>

----------------------------------------------------------------------------
(* The neighbour generator. *)

(* relative_positions that keeps the position (0, 0). *)
relative_positions_all(order) ==
    LET n == 2 * order + 1
    IN  [ t \in 1..(n * n) |->
            << ((t - 1) \div n) - order, ((t - 1) % n) - order >> ]

(* relative_positions with j outer and i inner. *)
relative_positions_columns(order) ==
    LET n == 2 * order + 1
        all == [ t \in 1..(n * n) |->
                    << ((t - 1) % n) - order, ((t - 1) \div n) - order >> ]
        NotCentre(p) == ~(p[1] = 0 /\ p[2] = 0)
    IN  SelectSeq(all, NotCentre)

(* The list comprehension relative_positions: i outer, j inner, (0, 0)     *)
(* left out.                                                               *)
relative_positions(order) ==
    LET n == 2 * order + 1
        all == [ t \in 1..(n * n) |->
                    << ((t - 1) \div n) - order, ((t - 1) % n) - order >> ]
        NotCentre(p) == ~(p[1] = 0 /\ p[2] = 0)
    IN  SelectSeq(all, NotCentre)

(* neighbors that takes the latitude offset for the longitude and the    *)
(* longitude offset for the latitude.                                      *)
neighbors_swapped(g, order) ==
    LET interval == decode_to_interval(g)
        delta_lat == Fl(interval[1][2] - interval[1][1])
        delta_lng == Fl(interval[2][2] - interval[2][1])
        lat == Fl(interval[1][1] + interval[1][2]) \div 2
        lng == Fl(interval[2][1] + interval[2][2]) \div 2
        pos == relative_positions(order)
    IN  [ k \in 1..Len(pos) |->
            _encode(_normalize_lat(Fl(lat + Fl(delta_lat * pos[k][2]))),
                    _normalize_angle_180(Fl(lng + Fl(delta_lng * pos[k][1]))),
                    Len(g)) ]

neighbors(g, order) ==
    LET interval == decode_to_interval(g)
        delta_lat == Fl(interval[1][2] - interval[1][1])
        delta_lng == Fl(interval[2][2] - interval[2][1])
        lat == Fl(interval[1][1] + interval[1][2]) \div 2
        lng == Fl(interval[2][1] + interval[2][2]) \div 2
        pos == relative_positions(order)
    IN  [ k \in 1..Len(pos) |->
            _encode(_normalize_lat(Fl(lat + Fl(delta_lat * pos[k][1]))),
                    _normalize_angle_180(Fl(lng + Fl(delta_lng * pos[k][2]))),
                    Len(g)) ]

----------------------------------------------------------------------------
(* Validation.  Each operator yields the exception the method raises, or   *)
(* None when it returns.                                                   *)

(* _validate_length that lets the length 0 through. *)
_validate_length_negative(length) ==
    IF length.type # "int" THEN "TypeError"
    ELSE IF length.val < 0 THEN "ValueError"
    ELSE None

_validate_length(length) ==
    IF length.type # "int" THEN "TypeError"
    ELSE IF length.val < 1 THEN "ValueError"
    ELSE None

_validate_lat_lng(l) ==
    IF l.type # "list" THEN "TypeError"
    ELSE IF Len(l.val) # 2 THEN "ValueError"
    ELSE IF \E k \in 1..Len(l.val) : l.val[k].type \notin {"float", "int"}
         THEN "TypeError"
    ELSE None

(* _validate_geohash that only asks for a non-empty string. *)
_validate_geohash_nonempty(s) ==
    IF s.type # "str" THEN "TypeError"
    ELSE IF s.val = << >> THEN "ValueError"
    ELSE None

_validate_geohash(s) ==
    IF s.type # "str" THEN "TypeError"
    ELSE IF s.val = << >> THEN "ValueError"
    ELSE IF \E k \in 1..Len(s.val) : s.val[k] \notin Alphabet
         THEN "ValueError"
    ELSE None

----------------------------------------------------------------------------
(* The methods of a Geohash object. *)

(* The state a call leaves: its name and arguments, the stored geohash,    *)
(* the caller's list, the returned value and the raised exception.         *)
Outcome(o, a, g, l, r, e) ==
    [ op |-> o, args |-> a, geohash |-> g, lat_lng |-> l, ret |-> r,
      err |-> e ]

(* The statements shared by __init__ and encode_with_lat_lng: validate,    *)
(* overwrite the list with the normalized angles, encode.  g is the        *)
(* geohash that stays when an exception is raised.                         *)
EncodeOutcome(o, l, n, g) ==
    LET a == [lat_lng |-> l, length |-> n]
        e1 == _validate_lat_lng(l)
        e2 == _validate_length(n)
    IN  IF e1 # None THEN Outcome(o, a, g, l, PyNone, e1)
        ELSE IF e2 # None THEN Outcome(o, a, g, l, PyNone, e2)
        ELSE LET lat == _normalize_lat(Units(l.val[1]))
                 lng == _normalize_angle_180(Units(l.val[2]))
                 l2 == PyList(<< NumLike(l.val[1], lat),
                                 NumLike(l.val[2], lng) >>)
             IN  Outcome(o, a,
                         PyStr(_encode(Units(l2.val[1]), Units(l2.val[2]),
                                       n.val)),
                         l2, PyNone, None)

DefaultGeohash == << "s", "0", "0", "0", "0", "0", "0", "0", "0", "0", "0" >>

(* A constructor that encodes the list whenever one is given, also next to *)
(* a geohash.                                                              *)
CtorOutcome_listwins(l, n, g) ==
    LET a == [lat_lng |-> l, length |-> n, geohash |-> g]
    IN  IF l # PyNone
        THEN [ EncodeOutcome("__init__", l, n, NoObject) EXCEPT !.args = a ]
        ELSE LET g2 == IF g = PyNone THEN PyStr(DefaultGeohash) ELSE g
                 e == _validate_geohash(g2)
             IN  IF e # None
                 THEN Outcome("__init__", a, NoObject, l, PyNone, e)
                 ELSE Outcome("__init__", a, g2, l, PyNone, None)

(* Geohash(lat_lng, length, geohash); a missing argument is PyNone. *)
CtorOutcome(l, n, g) ==
    LET a == [lat_lng |-> l, length |-> n, geohash |-> g]
    IN  IF l # PyNone /\ g # PyNone
        THEN Outcome("__init__", a, NoObject, l, PyNone, "ValueError")
        ELSE IF l # PyNone
        THEN [ EncodeOutcome("__init__", l, n, NoObject) EXCEPT !.args = a ]
        ELSE LET g2 == IF g = PyNone THEN PyStr(DefaultGeohash) ELSE g
                 e == _validate_geohash(g2)
             IN  IF e # None
                 THEN Outcome("__init__", a, NoObject, l, PyNone, e)
                 ELSE Outcome("__init__", a, g2, l, PyNone, None)

(* The current state is the one that outcome o describes. *)
Is(o) ==
    /\ op = o.op
    /\ args = o.args
    /\ geohash = o.geohash
    /\ lat_lng = o.lat_lng
    /\ ret = o.ret
    /\ err = o.err

(* The next state is the one that outcome o describes. *)
Becomes(o) ==
    /\ op' = o.op
    /\ args' = o.args
    /\ geohash' = o.geohash
    /\ lat_lng' = o.lat_lng
    /\ ret' = o.ret
    /\ err' = o.err

__init__(l, n, g) == Is(CtorOutcome(l, n, g))

Constructed == geohash # NoObject

get_geohash ==
    /\ Constructed
    /\ Becomes(Outcome("get_geohash", PyNone, geohash, lat_lng,
                       geohash, None))

__len__ ==
    /\ Constructed
    /\ Becomes(Outcome("__len__", PyNone, geohash, lat_lng,
                       PyInt(Len(geohash.val)), None))

(* set_geohash that stores the string before validating it. *)
set_geohash_storefirst(s) ==
    /\ Constructed
    /\ Becomes(Outcome("set_geohash", [s |-> s], s, lat_lng, PyNone,
                       _validate_geohash(s)))

set_geohash(s) ==
    /\ Constructed
    /\ LET e == _validate_geohash(s)
       IN  IF e # None
           THEN Becomes(Outcome("set_geohash", [s |-> s], geohash, lat_lng,
                                PyNone, e))
           ELSE Becomes(Outcome("set_geohash", [s |-> s], s, lat_lng,
                                PyNone, None))

encode_with_lat_lng(l, n) ==
    /\ Constructed
    /\ Becomes(EncodeOutcome("encode_with_lat_lng", l, n, geohash))

(* decode_to_interval that keeps its bounds between calls: a call that     *)
(* follows another one goes on bisecting the interval that one returned.   *)
DecodeToInterval_kept ==
    /\ Constructed
    /\ Becomes(Outcome("decode_to_interval", PyNone, geohash, lat_lng,
                       IF op = "decode_to_interval"
                       THEN DecodeLoop(Len(geohash.val) * 5 - 1,
                                       _geohash_to_bits(geohash.val),
                                       ret[1], ret[2], TRUE)
                       ELSE decode_to_interval(geohash.val),
                       None))

DecodeToInterval ==
    /\ Constructed
    /\ Becomes(Outcome("decode_to_interval", PyNone, geohash, lat_lng,
                       decode_to_interval(geohash.val), None))

Decode ==
    /\ Constructed
    /\ Becomes(Outcome("decode", PyNone, geohash, lat_lng,
                       decode(geohash.val), None))

(* neighbors that lets the order 0 through. *)
Neighbors_zero(order) ==
    /\ Constructed
    /\ IF order.type # "int" \/ order.val < 0
       THEN Becomes(Outcome("neighbors", [order |-> order], geohash,
                            lat_lng, PyNone, "TypeError"))
       ELSE Becomes(Outcome("neighbors", [order |-> order], geohash,
                            lat_lng, neighbors(geohash.val, order.val),
                            None))

Neighbors(order) ==
    /\ Constructed
    /\ IF order.type # "int" \/ order.val < 1
       THEN Becomes(Outcome("neighbors", [order |-> order], geohash,
                            lat_lng, PyNone, "TypeError"))
       ELSE Becomes(Outcome("neighbors", [order |-> order], geohash,
                            lat_lng, neighbors(geohash.val, order.val),
                            None))

----------------------------------------------------------------------------
(* The arguments that callers pass. *)

DefaultLength == 11

(* Every valid geohash string of at most n characters. *)
Strings(n) == UNION { [1..k -> Alphabet] : k \in 1..n }

(* Raw angles, in units: every multiple of 7.5 degrees up to MaxTurns      *)
(* whole turns past +-180, and the floats next to every multiple of 45     *)
(* degrees.                                                                *)
RawAngles ==
    LET step == Deg(15) \div 2
        last == 24 + 48 * MaxTurns
        near == { Deg(45) * m + e * UlpOf(Abs(Deg(45) * m), 1) :
                     m \in -(last \div 6)..(last \div 6), e \in {-1, 1} }
    IN  { step * k : k \in -last..last } \cup { v \in near : Fl(v) = v }

FloatList(lat, lng) == PyList(<< PyFloat(lat), PyFloat(lng) >>)
IntList(lat, lng) == PyList(<< PyInt(lat), PyInt(lng) >>)

SomeLists ==
    { FloatList(Deg(75) \div 2, -(Deg(245) \div 2)),
      FloatList(-Deg(90), -Deg(180)),
      IntList(370, -200),
      IntList(91, 540),
      IntList(0, 0),
      PyList(<< >>),
      PyList(<< PyInt(1) >>),
      PyList(<< PyStr(<< "n" >>), PyInt(-120) >>),
      PyStr(<< "3", "7" >>) }

SomeLengths ==
    { PyInt(-1), PyInt(0), PyInt(1), PyInt(MaxLen), PyFloat(Deg(2)) }

SomeStrings ==
    { PyStr(<< "s", "0" >>), PyStr(<< "0" >>), PyStr(<< "z", "z" >>),
      PyStr(<< "9", "q" >>), PyStr(<< "b" >>),
      PyStr(<< >>), PyStr(<< "a" >>), PyStr(<< "s", "Z" >>), PyInt(5) }

SomeOrders ==
    { PyInt(k) : k \in 0..MaxOrder } \cup { PyFloat(Deg(1)) }

----------------------------------------------------------------------------
(* The object and its callers: one object is constructed from a list or    *)
(* from a string, and then any method is called any number of times.       *)

Init ==
    \E l \in SomeLists \cup {PyNone}, n \in SomeLengths,
       g \in SomeStrings \cup {PyNone} :
        /\ ~(l = PyNone /\ g = PyNone)
        /\ __init__(l, n, g)

Next ==
    \/ get_geohash
    \/ __len__
    \/ \E s \in SomeStrings : set_geohash(s)
    \/ \E l \in SomeLists, n \in SomeLengths : encode_with_lat_lng(l, n)
    \/ DecodeToInterval
    \/ Decode
    \/ \E o \in SomeOrders : Neighbors(o)

Spec == Init /\ [][Next]_vars

----------------------------------------------------------------------------
(* Encoding as a function of its input: an object is constructed from      *)
(* each raw coordinate pair at each length, and then decoded.              *)

InitEncode ==
    \E lat \in RawAngles, lng \in RawAngles, n \in 1..MaxLen :
        __init__(FloatList(lat, lng), PyInt(n), PyNone)

NextEncode ==
    \/ DecodeToInterval
    \/ Decode

SpecEncode == InitEncode /\ [][NextEncode]_vars

----------------------------------------------------------------------------
(* Decoding as a function of the string: an object is constructed from     *)
(* each valid string, then decoded and re-encoded from the point that      *)
(* decode returned.                                                        *)

ReEncodeDecoded ==
    /\ op = "decode"
    /\ encode_with_lat_lng(FloatList(ret[1], ret[2]),
                           PyInt(Len(geohash.val)))

InitDecode ==
    \E g \in Strings(MaxLen) :
        __init__(PyNone, PyInt(DefaultLength), PyStr(g))

NextDecode ==
    \/ DecodeToInterval
    \/ Decode
    \/ ReEncodeDecoded

SpecDecode == InitDecode /\ [][NextDecode]_vars

----------------------------------------------------------------------------
(* The neighbours as a function of the string and the order: an object is  *)
(* constructed from a string and asked for its neighbours.  The strings    *)
(* have any first character, and then characters whose bits put the cell   *)
(* on an edge of the grid ("0", "b", "p", "z") or inside it ("7", "s"),    *)
(* and there are longer strings of "0" and "s".                            *)

NeighborStrings ==
    { g \in Strings(MaxLen) :
        \A k \in 2..Len(g) : g[k] \in {"0", "7", "b", "p", "s", "z"} }

(* Strings of LongLen - 1 characters, past the precision of the floats,   *)
(* for cells inside the grid.                                              *)
LongNeighborStrings ==
    [1..(LongLen - 1) -> {"0", "s"}] \ { [k \in 1..(LongLen - 1) |-> "0"] }

InitNeighbors ==
    \E g \in NeighborStrings \cup LongNeighborStrings :
        __init__(PyNone, PyInt(DefaultLength), PyStr(g))

NextNeighbors ==
    \/ \E o \in 1..MaxOrder : Neighbors(PyInt(o))
    \/ DecodeToInterval

SpecNeighbors == InitNeighbors /\ [][NextNeighbors]_vars

----------------------------------------------------------------------------
(* Lengths up to and past the precision of the floats: an object is       *)
(* constructed from each pair of multiples of 45 degrees, the corners and  *)
(* the centre of the grid among them, at each length up to LongLen, from   *)
(* each pair of raw angles in [-90, 90] x [-180, 180] at each length up to *)
(* MaxLen, or from a string of at most LongLen characters, or of           *)
(* LongLen + 1 characters "0" and "z", then decoded and re-encoded from    *)
(* the point that decode returned.                                         *)

LongStrings ==
    UNION { [1..k -> {"0", "b", "s", "z"}] : k \in 1..LongLen }
        \cup [1..(LongLen + 1) -> {"0", "z"}]

InitLong ==
    \/ \E i \in -2..2, j \in -4..4, n \in 1..LongLen :
          __init__(FloatList(Deg(45) * i, Deg(45) * j), PyInt(n), PyNone)
    \/ \E lat \in { v \in RawAngles : Abs(v) <= Deg(90) },
          lng \in { v \in RawAngles : Abs(v) <= Deg(180) }, n \in 1..MaxLen :
          __init__(FloatList(lat, lng), PyInt(n), PyNone)
    \/ \E g \in LongStrings :
          __init__(PyNone, PyInt(DefaultLength), PyStr(g))

NextLong ==
    \/ DecodeToInterval
    \/ Decode
    \/ ReEncodeDecoded

SpecLong == InitLong /\ [][NextLong]_vars

----------------------------------------------------------------------------
(* The constructor as a function of its arguments: each of lat_lng and     *)
(* geohash is given or left out, and the object, when there is one, is     *)
(* asked for its geohash and its length.                                   *)

InitCtor ==
    \E l \in SomeLists \cup {PyNone}, n \in SomeLengths,
       g \in SomeStrings \cup {PyNone} :
        __init__(l, n, g)

NextCtor ==
    \/ get_geohash
    \/ __len__

SpecCtor == InitCtor /\ [][NextCtor]_vars

----------------------------------------------------------------------------
(* The caller's list passed again: an object is constructed from a list    *)
(* of raw angles, and the list, as the last call left it, is passed to     *)
(* encode_with_lat_lng at the same length.                                 *)

ReEncodeSameList ==
    /\ op \in {"__init__", "encode_with_lat_lng"}
    /\ err = None
    /\ encode_with_lat_lng(lat_lng, args.length)

InitRepeat ==
    \E lat \in RawAngles, lng \in {-Deg(180), -(Deg(15) \div 2), 0, Deg(90)},
       n \in 1..MaxLen :
        __init__(FloatList(lat, lng), PyInt(n), PyNone)

NextRepeat == ReEncodeSameList

SpecRepeat == InitRepeat /\ [][NextRepeat]_vars

----------------------------------------------------------------------------
(* The base-32 transcoder as a pair of functions: the two static methods   *)
(* are called with every character and every 5-bit value, each on the      *)
(* result of the other too.                                                *)

Base32ToInt(c) ==
    /\ Constructed
    /\ Becomes(Outcome("_base_32_to_int", [c |-> PyStr(<< c >>)], geohash,
                       lat_lng, PyInt(_base_32_to_int(c)), None))

IntToBase32(v) ==
    /\ Constructed
    /\ Becomes(Outcome("_int_to_base_32", [v |-> PyInt(v)], geohash,
                       lat_lng, PyStr(<< _int_to_base_32(v) >>), None))

InitBase32 ==
    \E g \in Strings(1) : __init__(PyNone, PyInt(DefaultLength), PyStr(g))

NextBase32 ==
    \/ \E c \in Alphabet : Base32ToInt(c)
    \/ \E v \in 0..31 : IntToBase32(v)
    \/ op = "_base_32_to_int" /\ IntToBase32(ret.val)
    \/ op = "_int_to_base_32" /\ Base32ToInt(ret.val[1])

SpecBase32 == InitBase32 /\ [][NextBase32]_vars

----------------------------------------------------------------------------
(* What the properties below speak of. *)

(* The coordinate in the caller's list, in units. *)
Lat == Units(lat_lng.val[1])
Lng == Units(lat_lng.val[2])

(* The coordinate as it was passed to the constructor, in units. *)
RawLat == Units(args.lat_lng.val[1])
RawLng == Units(args.lat_lng.val[2])

(* The reference bisection: bits k .. total-1 for the point (lat, lng),    *)
(* b holding the current bounds of both axes.  Bit k bisects the longitude *)
(* when k is even and the latitude when k is odd.                          *)
RECURSIVE RefBits(_, _, _, _, _)
RefBits(k, total, lat, lng, b) ==
    IF k = total THEN << >>
    ELSE LET axis == IF k % 2 = 0 THEN "lng" ELSE "lat"
             c == IF k % 2 = 0 THEN lng ELSE lat
             mid == (b[axis][1] + b[axis][2]) \div 2
             bit == IF c >= mid THEN 1 ELSE 0
             b2 == [b EXCEPT ![axis] = IF bit = 1 THEN << mid, @[2] >>
                                                   ELSE << @[1], mid >>]
         IN  << bit >> \o RefBits(k + 1, total, lat, lng, b2)

RefEncode(lat, lng, length) ==
    LET bits == RefBits(0, 5 * length, lat, lng,
                        [lat |-> << -Deg(90), Deg(90) >>,
                         lng |-> << -Deg(180), Deg(180) >>])
    IN  [ m \in 1..length |->
            _BASE_32[1 + 16 * bits[5 * m - 4] + 8 * bits[5 * m - 3]
                       + 4 * bits[5 * m - 2] + 2 * bits[5 * m - 1]
                       + bits[5 * m]] ]

(* Bit p (0 = most significant) of the 5*Len(g)-bit stream of g. *)
CharIndex(c) == CHOOSE v \in 0..31 : _BASE_32[v + 1] = c
BitOf(g, p) == (CharIndex(g[(p \div 5) + 1]) \div (2 ^ (4 - (p % 5)))) % 2

(* The integer formed by bits p, p+2, p+4, ... of g, after acc. *)
RECURSIVE AxisInt(_, _, _)
AxisInt(g, p, acc) ==
    IF p >= 5 * Len(g) THEN acc
    ELSE AxisInt(g, p + 2, 2 * acc + BitOf(g, p))

(* The grid cell that the bits of g address. *)
GridCell(g) ==
    LET x == AxisInt(g, 0, 0)
        y == AxisInt(g, 1, 0)
        w_lng == Deg(360) \div (2 ^ ((5 * Len(g) + 1) \div 2))
        w_lat == Deg(180) \div (2 ^ ((5 * Len(g)) \div 2))
    IN  << << -Deg(90) + y * w_lat, -Deg(90) + (y + 1) * w_lat >>,
           << -Deg(180) + x * w_lng, -Deg(180) + (x + 1) * w_lng >> >>

----------------------------------------------------------------------------
(* The last call was a successful constructor call with a coordinate list. *)
EncodedFromList ==
    op = "__init__" /\ err = None /\ args.lat_lng.type = "list"

(* C1, as stated: for every latitude in [-90, 90], longitude in            *)
(* [-180, 180] and length, the geohash encoded from the point is the       *)
(* reference bisection of the point: bit k bisects longitude for even k    *)
(* and latitude for odd k, is 1 exactly when the coordinate is >= the      *)
(* midpoint, and character m is the alphabet symbol indexed by bits        *)
(* 5m..5m+4, most significant first.  Checked under SpecLong.              *)
EncodeIsReferenceBisection ==
    EncodedFromList => geohash.val = RefEncode(Lat, Lng, Len(geohash.val))

(* C1, amended: the same, for every length at which the bounds of the      *)
(* cells are floats (at most ExactLen characters).  Checked under          *)
(* SpecLong.                                                               *)
EncodeIsReferenceBisectionUpToExactLen ==
    (EncodedFromList /\ Len(geohash.val) <= ExactLen)
        => geohash.val = RefEncode(Lat, Lng, Len(geohash.val))

(* The pair (22.5, 97.5) has been encoded at ExactLen characters, the      *)
(* first of them "w".                                                      *)
EncodeIsReferenceBisectionWitness ==
    /\ EncodedFromList
    /\ Lat = Deg(45) \div 2 /\ Lng = Deg(195) \div 2
    /\ Len(geohash.val) = ExactLen
    /\ geohash.val[1] = "w"

(* C2, as stated: decode_to_interval returns exactly the grid cell its     *)
(* bits address: x from the even-position bits, y from the odd-position    *)
(* bits, longitude [-180 + x*w_lng, -180 + (x+1)*w_lng] with               *)
(* w_lng = 360/2^ceil(5L/2), latitude [-90 + y*w_lat, -90 + (y+1)*w_lat]   *)
(* with w_lat = 180/2^floor(5L/2); leading "0" characters count.  Checked  *)
(* under SpecLong.                                                         *)
DecodeIsGridCell ==
    op = "decode_to_interval" => ret = GridCell(geohash.val)

(* C2, amended: the same, for every geohash of at most ExactLen            *)
(* characters.  Checked under SpecLong.                                    *)
DecodeIsGridCellUpToExactLen ==
    (op = "decode_to_interval" /\ Len(geohash.val) <= ExactLen)
        => ret = GridCell(geohash.val)

(* "0b" has been decoded: the leading "0" counts, the cell is the second   *)
(* of its row and not the one of "b".                                      *)
DecodeIsGridCellWitness ==
    /\ op = "decode_to_interval"
    /\ geohash.val = << "0", "b" >>
    /\ ret = GridCell(<< "0", "b" >>)
    /\ ret # GridCell(<< "b" >>)
    /\ ret[2][2] < -Deg(90)

CoordinateInsideDecodedInterval ==
    /\ (op = "decode_to_interval" /\ lat_lng.type = "list") =>
          /\ ret[1][1] <= Lat /\ Lat <= ret[1][2]
          /\ ret[2][1] <= Lng /\ Lng <= ret[2][2]
    /\ (op = "decode" /\ lat_lng.type = "list") =>
          LET cell == GridCell(geohash.val)
          IN  /\ 2 * Abs(ret[1] - Lat) <= cell[1][2] - cell[1][1]
              /\ 2 * Abs(ret[2] - Lng) <= cell[2][2] - cell[2][1]

(* C4, amended: the normalized coordinate lies inside the interval at      *)
(* every length, and the point that decode() returns is within half a cell *)
(* width of it for every geohash whose cell has a float for its midpoint   *)
(* (at most MidExactLen characters).  Checked under SpecLong.              *)
CoordinateInsideDecodedIntervalUpToExactLen ==
    /\ (op = "decode_to_interval" /\ lat_lng.type = "list") =>
          /\ ret[1][1] <= Lat /\ Lat <= ret[1][2]
          /\ ret[2][1] <= Lng /\ Lng <= ret[2][2]
    /\ ( /\ op = "decode" /\ lat_lng.type = "list"
         /\ Len(geohash.val) <= MidExactLen ) =>
          LET cell == GridCell(geohash.val)
          IN  /\ 2 * Abs(ret[1] - Lat) <= cell[1][2] - cell[1][1]
              /\ 2 * Abs(ret[2] - Lng) <= cell[2][2] - cell[2][1]

(* The geohash encoded from (37.5, -127.5) at MidExactLen characters has   *)
(* been decoded to a point that is not the coordinate.                     *)
CoordinateInsideDecodedIntervalWitness ==
    /\ op = "decode" /\ lat_lng.type = "list"
    /\ Lat = Deg(75) \div 2 /\ Lng = -(Deg(255) \div 2)
    /\ Len(geohash.val) = MidExactLen
    /\ ret[1] # Lat /\ ret[2] # Lng

(* C5: neighbors(1) returns 8 pairwise distinct strings, none of them the  *)
(* stored geohash.  Checked under SpecNeighbors.                           *)
Order1NeighborsDistinct ==
    (op = "neighbors" /\ err = None /\ args.order = PyInt(1)) =>
        /\ Len(ret) = 8
        /\ \A a, b \in 1..Len(ret) : a # b => ret[a] # ret[b]
        /\ \A a \in 1..Len(ret) : ret[a] # geohash.val

(* C6: for a cell whose longitude interval ends at +180 the neighbour at   *)
(* offset (0, +1) is the cell of the same row that starts at -180, and for *)
(* a cell whose longitude interval starts at -180 the neighbour at offset  *)
(* (0, -1) is the cell of the same row that ends at +180.  Checked under   *)
(* SpecNeighbors.                                                          *)
NeighborsWrapAntimeridian ==
    (op = "neighbors" /\ err = None) =>
        LET cell == decode_to_interval(geohash.val)
            w == cell[2][2] - cell[2][1]
            pos == relative_positions(args.order.val)
        IN  \A k \in 1..Len(ret) :
                /\ (pos[k] = << 0, 1 >> /\ cell[2][2] = Deg(180)) =>
                      decode_to_interval(ret[k])
                          = << cell[1], << -Deg(180), -Deg(180) + w >> >>
                /\ (pos[k] = << 0, -1 >> /\ cell[2][1] = -Deg(180)) =>
                      decode_to_interval(ret[k])
                          = << cell[1], << Deg(180) - w, Deg(180) >> >>

(* C7: normalization has period 360 on both axes, so coordinate pairs that *)
(* differ by whole turns encode to the same geohash.  Checked under        *)
(* SpecEncode, for every shift of at most MaxTurns + 1 turns.              *)
NormalizationPeriodic ==
    (op = "__init__" /\ err = None) =>
        \A k \in -(MaxTurns + 1)..(MaxTurns + 1) :
            /\ _normalize_angle_180(RawLng + Deg(360) * k) = Lng
            /\ _normalize_lat(RawLat + Deg(360) * k) = Lat
            /\ _encode(_normalize_lat(RawLat + Deg(360) * k),
                       _normalize_angle_180(RawLng + Deg(360) * k),
                       Len(geohash.val)) = geohash.val

(* C8, as claimed: the normalized longitude lies in (-180, 180]; -180 is   *)
(* never returned.  Checked under SpecEncode.                              *)
LongitudeInHalfOpenRange ==
    (op = "__init__" /\ err = None) => (-Deg(180) < Lng /\ Lng <= Deg(180))

(* C8, amended: the normalized longitude lies in the closed range          *)
(* [-180, 180], and -180 is returned exactly for the negative inputs that  *)
(* are odd multiples of 180.  Checked under SpecEncode.                    *)
LongitudeInClosedRange ==
    (op = "__init__" /\ err = None) =>
        /\ -Deg(180) <= Lng /\ Lng <= Deg(180)
        /\ Lng = -Deg(180) <=> (RawLng < 0 /\ RawLng % Deg(360) = Deg(180))

(* The longitude -540 has been normalized to -180. *)
LongitudeInClosedRangeWitness ==
    /\ op = "__init__"
    /\ RawLng = -Deg(540)
    /\ Lng = -Deg(180)

(* C9: the normalized latitude lies in [-90, 90] and is the reflection of  *)
(* the reduced input r over the pole: 180 - r when r > 90, -180 - r when   *)
(* r < -90, r otherwise.  Checked under SpecEncode.                        *)
LatitudeReflectsOverPole ==
    (op = "__init__" /\ err = None) =>
        LET r == _normalize_angle_180(RawLat)
        IN  /\ -Deg(90) <= Lat /\ Lat <= Deg(90)
            /\ r > Deg(90) => Lat = Deg(180) - r
            /\ r < -Deg(90) => Lat = -Deg(180) - r
            /\ (-Deg(90) <= r /\ r <= Deg(90)) => Lat = r

(* The float next above the north pole has become the float as far below   *)
(* it, and 97.5 has become 82.5.                                           *)
LatitudeReflectsOverPoleWitness ==
    /\ op = "__init__"
    /\ \/ /\ RawLat = Deg(90) + UlpOf(Deg(90), 1)
          /\ Lat = Deg(90) - UlpOf(Deg(90), 1)
       \/ RawLat = Deg(195) \div 2 /\ Lat = Deg(165) \div 2

(* C10: normalization is idempotent on both axes: normalizing the          *)
(* normalized latitude, or the normalized longitude, returns it unchanged. *)
(* Checked under SpecEncode.                                               *)
NormalizationIdempotent ==
    (op = "__init__" /\ err = None) =>
        /\ Lat = _normalize_lat(RawLat)
        /\ Lng = _normalize_angle_180(RawLng)
        /\ _normalize_lat(Lat) = Lat
        /\ _normalize_angle_180(Lng) = Lng

(* C11: neighbors(order) returns (2*order+1)^2 - 1 strings, duplicates     *)
(* counted, each a valid geohash of the length of the stored one.  Checked *)
(* under SpecNeighbors.                                                    *)
NeighborCount ==
    (op = "neighbors" /\ err = None) =>
        LET order == args.order.val
        IN  /\ Len(ret) = (2 * order + 1) * (2 * order + 1) - 1
            /\ \A k \in 1..Len(ret) :
                   /\ Len(ret[k]) = Len(geohash.val)
                   /\ _validate_geohash(PyStr(ret[k])) = None

(* neighbors(MaxOrder) of a MaxLen-character cell on the bottom row has    *)
(* returned its list, which holds one string twice.                        *)
NeighborCountWitness ==
    /\ op = "neighbors" /\ err = None
    /\ args.order = PyInt(MaxOrder)
    /\ Len(geohash.val) = MaxLen
    /\ Len(ret) = (2 * MaxOrder + 1) * (2 * MaxOrder + 1) - 1
    /\ \E a, b \in 1..Len(ret) : a # b /\ ret[a] = ret[b]

(* C12: the geohash encoded from a numeric pair at length L has exactly L  *)
(* characters, each one of the 32 symbols of the alphabet.  Checked under  *)
(* SpecEncode.                                                             *)
EncodedInAlphabet ==
    (op = "__init__" /\ err = None) =>
        /\ Len(geohash.val) = args.length.val
        /\ \A k \in 1..Len(geohash.val) : geohash.val[k] \in Alphabet

(* The pair (37.5, -127.5) has been encoded at MaxLen characters, the      *)
(* first of them "9".                                                      *)
EncodedInAlphabetWitness ==
    /\ op = "__init__" /\ err = None
    /\ RawLat = Deg(75) \div 2 /\ RawLng = -(Deg(255) \div 2)
    /\ args.length = PyInt(MaxLen)
    /\ Len(geohash.val) = MaxLen
    /\ geohash.val[1] = "9"

(* C13, as stated: at every length L the pair (-90, -180) encodes to L     *)
(* copies of "0", the pair (90, 180) to L copies of "z" and the pair       *)
(* (0, 0) to "s" followed by L - 1 copies of "0".  Checked under SpecLong. *)
EdgeCasesEncode ==
    EncodedFromList =>
        LET L == args.length.val
        IN  /\ (RawLat = -Deg(90) /\ RawLng = -Deg(180)) =>
                  geohash.val = [k \in 1..L |-> "0"]
            /\ (RawLat = Deg(90) /\ RawLng = Deg(180)) =>
                  geohash.val = [k \in 1..L |-> "z"]
            /\ (RawLat = 0 /\ RawLng = 0) =>
                  geohash.val = [k \in 1..L |-> IF k = 1 THEN "s" ELSE "0"]

(* C13, amended: the same, at every length below LongLen.  Checked under   *)
(* SpecLong.                                                               *)
EdgeCasesEncodeBelowLongLen ==
    (EncodedFromList /\ args.length.val < LongLen) =>
        LET L == args.length.val
        IN  /\ (RawLat = -Deg(90) /\ RawLng = -Deg(180)) =>
                  geohash.val = [k \in 1..L |-> "0"]
            /\ (RawLat = Deg(90) /\ RawLng = Deg(180)) =>
                  geohash.val = [k \in 1..L |-> "z"]
            /\ (RawLat = 0 /\ RawLng = 0) =>
                  geohash.val = [k \in 1..L |-> IF k = 1 THEN "s" ELSE "0"]

(* The pair (-90, -180) has been encoded at LongLen - 1 characters, all of *)
(* them "0".                                                               *)
EdgeCasesEncodeWitness ==
    /\ EncodedFromList
    /\ RawLat = -Deg(90) /\ RawLng = -Deg(180)
    /\ args.length = PyInt(LongLen - 1)
    /\ geohash.val = [k \in 1..(LongLen - 1) |-> "0"]

(* C14: whatever calls have been made, failed ones included, the stored    *)
(* geohash is a non-empty string of alphabet characters, and               *)
(* decode_to_interval, decode and neighbors with a valid order do not      *)
(* fail.  Checked under Spec.                                              *)
StoredGeohashValid ==
    Constructed =>
        /\ geohash.type = "str"
        /\ Len(geohash.val) >= 1
        /\ \A k \in 1..Len(geohash.val) : geohash.val[k] \in Alphabet
        /\ op \in {"decode_to_interval", "decode"} => err = None
        /\ (op = "neighbors" /\ args.order.type = "int"
                /\ args.order.val >= 1) => err = None

(* set_geohash("sZ") has failed on an object that had encoded a pair, and  *)
(* the object still holds the encoded geohash.                             *)
StoredGeohashValidWitness ==
    /\ op = "set_geohash"
    /\ args.s = PyStr(<< "s", "Z" >>)
    /\ err = "ValueError"
    /\ lat_lng # PyNone
    /\ Len(geohash.val) = MaxLen

(* A length, or a lat_lng, that the encoder is to reject. *)
BadLength(n) == n.type # "int" \/ n.val < 1

BadLatLng(l) ==
    IF l.type # "list" THEN TRUE
    ELSE \/ Len(l.val) # 2
         \/ \E k \in 1..Len(l.val) : l.val[k].type \notin {"float", "int"}

(* C15: a constructor call with a lat_lng, or an encode_with_lat_lng call, *)
(* whose length is not an integer or is < 1, or whose lat_lng is not a     *)
(* list of exactly two float or int items, raises and produces no          *)
(* geohash: the constructor leaves no object, encode_with_lat_lng leaves   *)
(* the stored geohash and the list as they were.  Checked under Spec.      *)
InvalidEncodeInputRejected ==
    /\ []( ( /\ op = "__init__"
              /\ args.lat_lng # PyNone /\ args.geohash = PyNone
              /\ (BadLength(args.length) \/ BadLatLng(args.lat_lng)) )
            => (err # None /\ ~Constructed /\ lat_lng = args.lat_lng) )
    /\ [][ ( /\ op' = "encode_with_lat_lng"
              /\ (BadLength(args'.length) \/ BadLatLng(args'.lat_lng)) )
            => ( /\ err' # None
                 /\ geohash' = geohash
                 /\ lat_lng' = args'.lat_lng ) ]_vars

(* encode_with_lat_lng with length 0 has failed on an object that holds    *)
(* "zz".                                                                   *)
InvalidEncodeInputRejectedWitness ==
    /\ op = "encode_with_lat_lng"
    /\ args.length = PyInt(0)
    /\ args.lat_lng = IntList(370, -200)
    /\ err = "ValueError"
    /\ geohash = PyStr(<< "z", "z" >>)

(* The 32 symbols, and the strings made of one or more of them. *)
Symbols ==
    { "0", "1", "2", "3", "4", "5", "6", "7", "8", "9", "b", "c", "d", "e",
      "f", "g", "h", "j", "k", "m", "n", "p", "q", "r", "s", "t", "u", "v",
      "w", "x", "y", "z" }

WellFormed(s) == s.val # << >> /\ \A k \in 1..Len(s.val) : s.val[k] \in Symbols

(* C16: the constructor called with a geohash string, and set_geohash,     *)
(* raise when the string is empty or holds a character outside the         *)
(* alphabet (an upper-case letter included), and otherwise store the       *)
(* string as it is.  Checked under Spec.                                   *)
GeohashStringValidated ==
    /\ []( ( /\ op = "__init__"
              /\ args.lat_lng = PyNone /\ args.geohash.type = "str" )
            => IF WellFormed(args.geohash)
               THEN err = None /\ geohash = args.geohash
               ELSE err # None /\ ~Constructed )
    /\ [][ ( op' = "set_geohash" /\ args'.s.type = "str" )
            => IF WellFormed(args'.s)
               THEN err' = None /\ geohash' = args'.s
               ELSE err' # None /\ geohash' = geohash ]_vars

(* set_geohash("9q") has stored "9q". *)
GeohashStringValidatedWitness ==
    /\ op = "set_geohash"
    /\ args.s = PyStr(<< "9", "q" >>)
    /\ err = None
    /\ geohash = PyStr(<< "9", "q" >>)

(* C17: neighbors called with an order that is < 1 or not an integer       *)
(* raises, returns no list and leaves the stored geohash as it was.        *)
(* Checked under Spec.                                                     *)
InvalidOrderRejected ==
    [][ ( /\ op' = "neighbors"
          /\ (args'.order.type # "int" \/ args'.order.val < 1) )
        => (err' # None /\ ret' = PyNone /\ geohash' = geohash) ]_vars

(* neighbors(0) has failed on an object that holds a MaxLen-character      *)
(* geohash.                                                                *)
InvalidOrderRejectedWitness ==
    /\ op = "neighbors"
    /\ args.order = PyInt(0)
    /\ err = "TypeError"
    /\ ret = PyNone
    /\ Len(geohash.val) = MaxLen

(* The angles in range that differ from x by whole turns, and the          *)
(* latitudes they reflect to over the poles.                               *)
WrappedLngs(x) ==
    LET r == x % Deg(360)
        y == IF r > Deg(180) THEN r - Deg(360) ELSE r
    IN  IF y = Deg(180) THEN {Deg(180), -Deg(180)} ELSE {y}

WrappedLats(x) ==
    { IF r > Deg(90) THEN Deg(180) - r
      ELSE IF r < -Deg(90) THEN -Deg(180) - r
      ELSE r : r \in WrappedLngs(x) }

(* C18: a numeric pair of any magnitude or sign is never rejected and      *)
(* never clamped: the constructor succeeds and the geohash is that of the  *)
(* wrapped-around coordinate.  Checked under SpecEncode.                   *)
OutOfRangeWrapped ==
    op = "__init__" =>
        /\ err = None
        /\ \E lat \in WrappedLats(RawLat), lng \in WrappedLngs(RawLng) :
               geohash.val = RefEncode(lat, lng, args.length.val)

(* The decimal places that a width calls for: -floor(log10(width)), and at *)
(* least one.                                                              *)
RECURSIVE DecimalsOf(_, _)
DecimalsOf(width, d) ==
    IF width * (10 ^ d) >= Deg(1) THEN d ELSE DecimalsOf(width, d + 1)

Decimals(width) == IF DecimalsOf(width, 0) < 1 THEN 1 ELSE DecimalsOf(width, 0)

(* r is m rounded to d decimal places, a half going away from zero. *)
IsRounded(r, m, d) ==
    /\ (r * (10 ^ d)) % Scale = 0
    /\ 2 * (10 ^ d) * Abs(r - m) <= Scale
    /\ (2 * (10 ^ d) * Abs(r - m) = Scale) => Abs(r) > Abs(m)

(* C19: the point that decode() returns is, on each axis, the midpoint of  *)
(* the interval rounded to the decimal places that the width of the        *)
(* interval calls for (floor(log10(width)), at least one place), a half    *)
(* going away from zero; it is not the unrounded midpoint.  Checked under  *)
(* SpecDecode.                                                             *)
DecodeReturnsRoundedMidpoint ==
    op = "decode" =>
        LET cell == decode_to_interval(geohash.val)
        IN  \A axis \in 1..2 :
                IsRounded(ret[axis],
                          (cell[axis][1] + cell[axis][2]) \div 2,
                          Decimals(cell[axis][2] - cell[axis][1]))

(* The geohash without its last character, and the width of an interval. *)
Prefix(g) == SubSeq(g, 1, Len(g) - 1)
Width(r) == r[2] - r[1]

(* inner is a narrower interval inside outer. *)
ShrinksInside(inner, outer) ==
    /\ Width(inner) < Width(outer)
    /\ outer[1] <= inner[1] /\ inner[2] <= outer[2]

Base32IsBijection ==
    /\ op = "_base_32_to_int" =>
          /\ ret.val \in 0..31
          /\ _BASE_32[ret.val + 1] = args.c.val[1]
    /\ op = "_int_to_base_32" =>
          /\ ret.val[1] \in Alphabet
          /\ _BASE_32[args.v.val + 1] = ret.val[1]
    /\ [][ /\ ( /\ op = "_base_32_to_int" /\ op' = "_int_to_base_32"
                /\ args'.v = ret ) => ret' = args.c
           /\ ( /\ op = "_int_to_base_32" /\ op' = "_base_32_to_int"
                /\ args'.c = ret ) => ret' = args.v ]_vars

(* "z" has been turned into 31 and 31 back into "z". *)
Base32IsBijectionWitness ==
    /\ op = "_int_to_base_32"
    /\ args.v = PyInt(31)
    /\ ret = PyStr(<< "z" >>)

(* C22: the constructor takes its value from exactly one source.  Given    *)
(* both lat_lng and geohash it raises and there is no object; given        *)
(* neither it stores "s0000000000", which has the default length and       *)
(* addresses the grid cell whose lower bounds are latitude 0 and longitude *)
(* 0, and of which the geohash that the constructor encodes from [0, 0] at *)
(* a shorter length is the beginning.  Checked under SpecCtor.             *)
ConstructorTakesOneSource ==
    op = "__init__" =>
        /\ (args.lat_lng # PyNone /\ args.geohash # PyNone) =>
              (err = "ValueError" /\ geohash = NoObject)
        /\ (args.lat_lng = PyNone /\ args.geohash = PyNone) =>
              /\ err = None
              /\ geohash = PyStr(DefaultGeohash)
              /\ Len(geohash.val) = DefaultLength
              /\ 2 * AxisInt(geohash.val, 0, 0)
                    = 2 ^ ((5 * DefaultLength + 1) \div 2)
              /\ 2 * AxisInt(geohash.val, 1, 0)
                    = 2 ^ ((5 * DefaultLength) \div 2)
        /\ ( /\ args.lat_lng \in {IntList(0, 0), FloatList(0, 0)}
             /\ args.geohash = PyNone /\ err = None ) =>
              geohash.val = SubSeq(DefaultGeohash, 1, args.length.val)

(* Geohash() has been called without arguments and holds 11 characters,    *)
(* the first of them "s".                                                  *)
ConstructorTakesOneSourceWitness ==
    /\ op = "__init__"
    /\ args.lat_lng = PyNone /\ args.geohash = PyNone
    /\ err = None
    /\ Len(geohash.val) = 11 /\ geohash.val[1] = "s"

(* The cell of g lies at least order cells away from every edge of the     *)
(* grid.                                                                   *)
AwayFromEdges(g, order) ==
    LET x == AxisInt(g, 0, 0)
        y == AxisInt(g, 1, 0)
        nx == 2 ^ ((5 * Len(g) + 1) \div 2)
        ny == 2 ^ ((5 * Len(g)) \div 2)
    IN  /\ order <= x /\ x + order <= nx - 1
        /\ order <= y /\ y + order <= ny - 1

(* The cell of g shifted by i cell-heights and j cell-widths. *)
ShiftedCell(g, i, j) ==
    LET cell == GridCell(g)
        h == Width(cell[1])
        w == Width(cell[2])
    IN  << << cell[1][1] + i * h, cell[1][2] + i * h >>,
           << cell[2][1] + j * w, cell[2][2] + j * w >> >>

(* C23, as stated: for a cell at least order cells away from every edge of *)
(* the grid, the string that neighbors(order) returns for the offset       *)
(* (i, j) addresses the cell's own interval shifted by i cell-heights in   *)
(* latitude and j cell-widths in longitude.  Checked under SpecNeighbors.  *)
NeighborIsShiftedCell ==
    ( /\ op = "neighbors" /\ err = None
      /\ AwayFromEdges(geohash.val, args.order.val) ) =>
        LET pos == relative_positions(args.order.val)
        IN  \A k \in 1..Len(pos) :
                GridCell(ret[k])
                    = ShiftedCell(geohash.val, pos[k][1], pos[k][2])

(* C23, amended: the same, for a geohash of at most ExactLen characters.   *)
(* Checked under SpecNeighbors.                                            *)
NeighborIsShiftedCellUpToExactLen ==
    ( /\ op = "neighbors" /\ err = None
      /\ Len(geohash.val) <= ExactLen
      /\ AwayFromEdges(geohash.val, args.order.val) ) =>
        LET pos == relative_positions(args.order.val)
        IN  \A k \in 1..Len(pos) :
                GridCell(ret[k])
                    = ShiftedCell(geohash.val, pos[k][1], pos[k][2])

(* neighbors(MaxOrder) of "ss" has been returned: its first string is the  *)
(* cell MaxOrder rows below and MaxOrder columns to the left.              *)
NeighborIsShiftedCellWitness ==
    /\ op = "neighbors" /\ err = None
    /\ geohash.val = << "s", "s" >>
    /\ args.order = PyInt(MaxOrder)
    /\ AwayFromEdges(geohash.val, MaxOrder)
    /\ ret[1] # geohash.val
    /\ GridCell(ret[1]) = ShiftedCell(geohash.val, -MaxOrder, -MaxOrder)

(* C24: a set_geohash or encode_with_lat_lng call that raises leaves the   *)
(* stored geohash as the last successful call set it and the elements of   *)
(* the caller's list as they were passed; and get_geohash() after a        *)
(* successful set_geohash(s) returns s.  Checked under Spec.               *)
FailedCallChangesNothing ==
    [][ /\ (op' = "set_geohash" /\ err' # None) =>
              (geohash' = geohash /\ lat_lng' = lat_lng)
        /\ (op' = "encode_with_lat_lng" /\ err' # None) =>
              (geohash' = geohash /\ lat_lng' = args'.lat_lng)
        /\ (op = "set_geohash" /\ err = None /\ op' = "get_geohash") =>
              (ret' = args.s /\ geohash' = args.s) ]_vars

(* set_geohash("sZ") has raised on an object that holds "9q". *)
FailedCallChangesNothingWitness ==
    /\ op = "set_geohash"
    /\ args.s = PyStr(<< "s", "Z" >>)
    /\ err = "ValueError"
    /\ geohash = PyStr(<< "9", "q" >>)

(* The methods that only read. *)
ReadOnly ==
    {"decode_to_interval", "decode", "neighbors", "get_geohash", "__len__"}

(* C25: decode_to_interval, decode, neighbors, get_geohash and len leave   *)
(* the stored geohash and the caller's list unchanged, and the same call   *)
(* made again right away returns an equal result.  Checked under Spec.     *)
ReadOnlyMethods ==
    [][ /\ op' \in ReadOnly => (geohash' = geohash /\ lat_lng' = lat_lng)
        /\ (op \in ReadOnly /\ op' = op /\ args' = args) =>
              (ret' = ret /\ err' = err) ]_vars

(* decode_to_interval has returned the cell of "9q". *)
ReadOnlyMethodsWitness ==
    /\ op = "decode_to_interval"
    /\ geohash = PyStr(<< "9", "q" >>)
    /\ ret = GridCell(<< "9", "q" >>)

(* The list l with its items replaced by the normalized angles. *)
NormalizedList(l) ==
    PyList(<< NumLike(l.val[1], _normalize_lat(Units(l.val[1]))),
              NumLike(l.val[2], _normalize_angle_180(Units(l.val[2]))) >>)

(* C26: a successful construction from lat_lng or encode_with_lat_lng      *)
(* leaves [normalize_lat(lat), normalize_lng(lng)] in the caller's list    *)
(* and stores the geohash of those values; passing the same list again at  *)
(* the same length stores the same geohash.  Checked under SpecRepeat.     *)
ListNormalizedInPlace ==
    /\ []( (op \in {"__init__", "encode_with_lat_lng"} /\ err = None) =>
             /\ lat_lng = NormalizedList(args.lat_lng)
             /\ geohash.val = _encode(Lat, Lng, args.length.val) )
    /\ [][ ( /\ op \in {"__init__", "encode_with_lat_lng"} /\ err = None
             /\ op' = "encode_with_lat_lng"
             /\ args'.lat_lng = lat_lng
             /\ args'.length = args.length )
           => (err' = None /\ geohash' = geohash) ]_vars

(* The k-th offset in row-major order with (0, 0) skipped: the latitude    *)
(* offset i runs from -order to order and, within each i, the longitude    *)
(* offset j runs from -order to order.                                     *)
RowMajorOffset(order, k) ==
    LET n == 2 * order + 1
        t == IF 2 * k <= n * n - 1 THEN k - 1 ELSE k
    IN  << (t \div n) - order, (t % n) - order >>

(* The geohash, at the length of g, of the centre of the cell of g moved   *)
(* by i cell-heights and j cell-widths and normalized.                     *)
EncodeOffset(g, i, j) ==
    LET cell == decode_to_interval(g)
        centre == decode(g)
    IN  _encode(_normalize_lat(Fl(centre[1] + Fl(Fl(Width(cell[1])) * i))),
                _normalize_angle_180(
                    Fl(centre[2] + Fl(Fl(Width(cell[2])) * j))),
                Len(g))

(* C27: neighbors(order) lists its results in the row-major order of the   *)
(* offsets, (0, 0) skipped: its k-th element is the encoding of the k-th   *)
(* offset.  Checked under SpecNeighbors.                                   *)
NeighborsRowMajor ==
    (op = "neighbors" /\ err = None) =>
        /\ Len(ret) = (2 * args.order.val + 1) * (2 * args.order.val + 1) - 1
        /\ \A k \in 1..Len(ret) :
              LET o == RowMajorOffset(args.order.val, k)
              IN  /\ o # << 0, 0 >>
                  /\ ret[k] = EncodeOffset(geohash.val, o[1], o[2])

(* neighbors(1) of "s7" has been returned: the cell below is its second    *)
(* element, the cell to the left its fourth, the cell to the right its     *)
(* fifth.                                                                  *)
NeighborsRowMajorWitness ==
    /\ op = "neighbors" /\ err = None
    /\ geohash.val = << "s", "7" >>
    /\ args.order = PyInt(1)
    /\ GridCell(ret[2]) = ShiftedCell(geohash.val, -1, 0)
    /\ GridCell(ret[4]) = ShiftedCell(geohash.val, 0, -1)
    /\ GridCell(ret[5]) = ShiftedCell(geohash.val, 0, 1)

(* C28: an input that is an exact multiple of 360, positive, negative or   *)
(* zero, normalizes to 0 on both axes; and a non-negative input does not   *)
(* normalize to a negative value unless its reduction modulo 360 exceeds   *)
(* 180.  Checked under SpecEncode.                                         *)
WholeTurnsNormalizeToZero ==
    (op = "__init__" /\ err = None) =>
        /\ RawLat % Deg(360) = 0 => Lat = 0
        /\ RawLng % Deg(360) = 0 => Lng = 0
        /\ (RawLat >= 0 /\ RawLat % Deg(360) <= Deg(180)) => Lat >= 0
        /\ (RawLng >= 0 /\ RawLng % Deg(360) <= Deg(180)) => Lng >= 0

(* The pair (-360, 360) has been encoded as the pair (0, 0) is. *)
WholeTurnsNormalizeToZeroWitness ==
    /\ op = "__init__" /\ err = None
    /\ RawLat = -Deg(360) /\ RawLng = Deg(360)
    /\ Lat = 0 /\ Lng = 0
    /\ geohash.val[1] = "s"

(* C29: for every coordinate pair and lengths 1 <= L < M, the geohash      *)
(* encoded at length L is exactly the first L characters of the geohash    *)
(* encoded at length M.  The state holds the encoding at length M; the     *)
(* encoding of the same raw pair at each shorter length is compared with   *)
(* it.  Checked under SpecLong.                                            *)
EncodedAt(l, n) == EncodeOutcome("encode_with_lat_lng", l, PyInt(n), PyNone)

ShorterIsPrefix ==
    (/\ op \in {"__init__", "encode_with_lat_lng"}
     /\ err = None
     /\ args.lat_lng.type = "list") =>
        \A L \in 1..(args.length.val - 1) :
            /\ EncodedAt(args.lat_lng, L).err = None
            /\ EncodedAt(args.lat_lng, L).geohash.val
                   = SubSeq(geohash.val, 1, L)

(* A pair has been encoded at length LongLen to a geohash whose characters *)
(* are not all the same, and its encoding at length 1 is the first of them.*)
ShorterIsPrefixWitness ==
    /\ op = "__init__" /\ err = None
    /\ args.lat_lng.type = "list"
    /\ args.length.val = LongLen
    /\ \E m \in 2..LongLen : geohash.val[m] # geohash.val[1]
    /\ EncodedAt(args.lat_lng, 1).geohash.val = << geohash.val[1] >>

(* C30: the two axes are encoded independently.  Two encodes at the same   *)
(* length whose inputs have equal longitudes agree on every even-position  *)
(* bit whatever their latitudes are, and two whose inputs have equal       *)
(* latitudes agree on every odd-position bit whatever their longitudes     *)
(* are.  The state holds one encode; the other takes its other coordinate  *)
(* from OtherAngles, which has latitudes that fold over a pole.  Checked   *)
(* under SpecRepeat.                                                       *)
OtherAngles == { -Deg(225), -Deg(45), Deg(135) }

LngBits(g) == AxisInt(g, 0, 0)
LatBits(g) == AxisInt(g, 1, 0)

AxesIndependent ==
    (op \in {"__init__", "encode_with_lat_lng"} /\ err = None) =>
        \A other \in OtherAngles :
            /\ LngBits(EncodedAt(FloatList(other, RawLng),
                                 args.length.val).geohash.val)
                   = LngBits(geohash.val)
            /\ LatBits(EncodedAt(FloatList(RawLat, other),
                                 args.length.val).geohash.val)
                   = LatBits(geohash.val)

(* A latitude past the north pole has been encoded, and an encode of the   *)
(* same longitude with another latitude gives another geohash with the     *)
(* same longitude bits.                                                    *)
AxesIndependentWitness ==
    /\ op = "__init__" /\ err = None
    /\ RawLat > Deg(90) /\ RawLat < Deg(180)
    /\ RawLng = Deg(90)
    /\ \E other \in OtherAngles :
          LET g2 == EncodedAt(FloatList(other, RawLng),
                              args.length.val).geohash.val
          IN  /\ g2 # geohash.val
              /\ LngBits(g2) = LngBits(geohash.val)
====
